---- MODULE Spec2Model ----
(***************************************************************************)
(* Model of src/app.py: the Mergington High School activities service.     *)
(* The store is the SQLite file activities.db with its two tables; the     *)
(* operations are init_db, get_activities, signup_for_activity and         *)
(* unregister_from_activity.                                               *)
(*                                                                         *)
(* Spec     : requests are served one after another (each handler runs to  *)
(*            completion before the next starts).                          *)
(* SpecConc : requests run on their own connections and their SQL          *)
(*            statements interleave (FastAPI runs "def" handlers in a      *)
(*            thread pool).                                                *)
(***************************************************************************)
EXTENDS Integers, FiniteSets, Sequences, TLC

(* ------------------------------ bounds --------------------------------- *)

\* Number of e-mail addresses, besides the seeded ones, that requests carry.
NumNewEmails == 8

\* Number of requests that may be in flight at once under SpecConc.
NumRequests == 2

(* --------------------------- program data ------------------------------ *)

\* INITIAL_ACTIVITIES, restricted to two of its nine entries (the one with
\* the smallest capacity, and the first one).
INITIAL_ACTIVITIES ==
    [a \in {"Math Olympiad", "Chess Club"} |->
        IF a = "Math Olympiad"
        THEN [description |-> "Prepare for math competitions and solve challenging problems",
              schedule |-> "Thursdays, 3:30 PM - 5:00 PM",
              max_participants |-> 10,
              participants |-> {"charlotte@mergington.edu", "jack@mergington.edu"}]
        ELSE [description |-> "Learn strategies and compete in chess tournaments",
              schedule |-> "Fridays, 3:30 PM - 5:00 PM",
              max_participants |-> 12,
              participants |-> {"michael@mergington.edu", "daniel@mergington.edu"}]]

\* The i-th e-mail address that is not in the seed data.
NewEmail(i) == "student" \o ToString(i) \o "@mergington.edu"

NewEmails == {NewEmail(i) : i \in 1..NumNewEmails}

\* The rows init_db inserts into the two tables.
SeedActivities ==
    [a \in DOMAIN INITIAL_ACTIVITIES |->
        [description |-> INITIAL_ACTIVITIES[a].description,
         schedule |-> INITIAL_ACTIVITIES[a].schedule,
         max_participants |-> INITIAL_ACTIVITIES[a].max_participants]]

SeedParticipants ==
    UNION {{<<a, e>> : e \in INITIAL_ACTIVITIES[a].participants} :
           a \in DOMAIN INITIAL_ACTIVITIES}

(* ------------------------------- state --------------------------------- *)

VARIABLES
    activities,     \* table activities: name -> [description, schedule, max_participants]
    participants,   \* table participants: set of <<activity_name, email>> (primary key)
    started,        \* the module-level init_db() call has run
    response,       \* Spec: the last request served and its HTTP response
    conn,           \* SpecConc: each request's connection and handler position
    writer          \* SpecConc: the connection holding SQLite's write lock, or 0

vars == <<activities, participants, started, response, conn, writer>>

(* --------------------------- SQL statements ---------------------------- *)

\* SELECT ... FROM activities WHERE name = ? : the rows fetched (none or one).
SelectActivity(acts, activity_name) ==
    IF activity_name \in DOMAIN acts THEN {acts[activity_name]} ELSE {}

\* SELECT COUNT(*) FROM participants WHERE activity_name = ?
CountParticipants(parts, activity_name) ==
    Cardinality({p \in parts : p[1] = activity_name})

\* Mutant of SelectParticipant: the two parameters bound in the wrong order.
SelectParticipant_Swapped(parts, activity_name, email) ==
    \E p \in parts : p[1] = email /\ p[2] = activity_name

\* SELECT 1 FROM participants WHERE activity_name = ? AND email = ? : a row came back.
SelectParticipant(parts, activity_name, email) ==
    \E p \in parts : p[1] = activity_name /\ p[2] = email

\* INSERT INTO participants (activity_name, email) VALUES (?, ?).  The primary
\* key (activity_name, email) rejects a second row for the pair; the foreign
\* key is declared but not enforced (no PRAGMA foreign_keys).
InsertParticipant(parts, activity_name, email) ==
    IF <<activity_name, email>> \in parts
    THEN [error |-> "IntegrityError", rows |-> parts]
    ELSE [error |-> "", rows |-> parts \cup {<<activity_name, email>>}]

\* Mutant of DeleteParticipant: WHERE email = ? alone.
DeleteParticipant_AnyActivity(parts, activity_name, email) ==
    LET hit == {p \in parts : p[2] = email}
    IN  [rowcount |-> Cardinality(hit), rows |-> parts \ hit]

\* DELETE FROM participants WHERE activity_name = ? AND email = ?
DeleteParticipant(parts, activity_name, email) ==
    LET hit == {p \in parts : p[1] = activity_name /\ p[2] = email}
    IN  [rowcount |-> Cardinality(hit), rows |-> parts \ hit]

(* ------------------------------ handlers ------------------------------- *)

\* Mutant of IsFull: > for >=.
IsFull_OffByOne(current_participants, max_participants) ==
    current_participants > max_participants

\* if current_participants >= activity["max_participants"]
IsFull(current_participants, max_participants) ==
    current_participants >= max_participants

\* raise HTTPException(status_code, detail): the connection is closed without
\* a commit, so the tables are left as `parts`.
HTTPException(status_code, detail, parts) ==
    [status |-> status_code, body |-> [detail |-> detail], participants |-> parts]

\* An exception the handler does not catch: FastAPI answers 500.
ServerError(kind, parts) ==
    [status |-> 500, body |-> [detail |-> kind], participants |-> parts]

\* Mutant of init_db: the seed rows are written (INSERT OR IGNORE) on every call.
init_db_Always(acts, parts) ==
    [activities |-> [a \in DOMAIN acts \cup DOMAIN SeedActivities |->
                        IF a \in DOMAIN acts THEN acts[a] ELSE SeedActivities[a]],
     participants |-> parts \cup SeedParticipants]

\* init_db() run on the tables (acts, parts): the tables it leaves.
init_db(acts, parts) ==
    IF Cardinality(DOMAIN acts) = 0
    THEN [activities |-> SeedActivities,
          participants |-> parts \cup SeedParticipants]
    ELSE [activities |-> acts, participants |-> parts]

\* Mutant of get_activities: every e-mail is appended to every activity.
get_activities_NoJoin(acts, parts) ==
    [status |-> 200,
     body |-> [a \in DOMAIN acts |->
                 [description |-> acts[a].description,
                  schedule |-> acts[a].schedule,
                  max_participants |-> acts[a].max_participants,
                  participants |-> {p[2] : p \in parts}]]]

\* get_activities(): the mapping returned, or KeyError when a participant row
\* names an activity that has no row.
get_activities(acts, parts) ==
    IF \E p \in parts : p[1] \notin DOMAIN acts
    THEN [status |-> 500, body |-> [detail |-> "KeyError"]]
    ELSE [status |-> 200,
          body |-> [a \in DOMAIN acts |->
                      [description |-> acts[a].description,
                       schedule |-> acts[a].schedule,
                       max_participants |-> acts[a].max_participants,
                       participants |-> {p[2] : p \in {q \in parts : q[1] = a}}]]]

\* Mutant of signup_for_activity: the duplicate check before the capacity check.
signup_for_activity_DupFirst(acts, parts, activity_name, email) ==
    LET activity == SelectActivity(acts, activity_name)
        current_participants == CountParticipants(parts, activity_name)
        inserted == InsertParticipant(parts, activity_name, email)
    IN  IF activity = {}
        THEN HTTPException(404, "Activity not found", parts)
        ELSE IF SelectParticipant(parts, activity_name, email)
        THEN HTTPException(400, "Already registered for this activity", parts)
        ELSE IF IsFull(current_participants, (CHOOSE row \in activity : TRUE).max_participants)
        THEN HTTPException(400, "Activity is full", parts)
        ELSE [status |-> 200,
              body |-> [message |-> "Successfully signed up for " \o activity_name],
              participants |-> inserted.rows]

\* Mutant of signup_for_activity: the row is inserted and committed first,
\* the capacity is checked afterwards.
signup_for_activity_InsertFirst(acts, parts, activity_name, email) ==
    LET activity == SelectActivity(acts, activity_name)
        inserted == InsertParticipant(parts, activity_name, email)
    IN  IF activity = {}
        THEN HTTPException(404, "Activity not found", parts)
        ELSE IF SelectParticipant(parts, activity_name, email)
        THEN HTTPException(400, "Already registered for this activity", parts)
        ELSE IF CountParticipants(inserted.rows, activity_name)
                  > (CHOOSE row \in activity : TRUE).max_participants
        THEN HTTPException(400, "Activity is full", inserted.rows)
        ELSE [status |-> 200,
              body |-> [message |-> "Successfully signed up for " \o activity_name],
              participants |-> inserted.rows]

\* Mutant of signup_for_activity: no check that the activity exists.
signup_for_activity_NoLookup(acts, parts, activity_name, email) ==
    LET activity == SelectActivity(acts, activity_name)
        current_participants == CountParticipants(parts, activity_name)
        inserted == InsertParticipant(parts, activity_name, email)
    IN  IF activity # {} /\ IsFull(current_participants,
                                   (CHOOSE row \in activity : TRUE).max_participants)
        THEN HTTPException(400, "Activity is full", parts)
        ELSE IF SelectParticipant(parts, activity_name, email)
        THEN HTTPException(400, "Already registered for this activity", parts)
        ELSE [status |-> 200,
              body |-> [message |-> "Successfully signed up for " \o activity_name],
              participants |-> inserted.rows]

\* signup_for_activity(activity_name, email), run without interruption.
signup_for_activity(acts, parts, activity_name, email) ==
    LET activity == SelectActivity(acts, activity_name)
        current_participants == CountParticipants(parts, activity_name)
        inserted == InsertParticipant(parts, activity_name, email)
    IN  IF activity = {}
        THEN HTTPException(404, "Activity not found", parts)
        ELSE IF IsFull(current_participants, (CHOOSE row \in activity : TRUE).max_participants)
        THEN HTTPException(400, "Activity is full", parts)
        ELSE IF SelectParticipant(parts, activity_name, email)
        THEN HTTPException(400, "Already registered for this activity", parts)
        ELSE IF inserted.error # ""
        THEN ServerError(inserted.error, parts)
        ELSE [status |-> 200,
              body |-> [message |-> "Successfully signed up for " \o activity_name],
              participants |-> inserted.rows]

\* unregister_from_activity(activity_name, email), run without interruption.
unregister_from_activity(acts, parts, activity_name, email) ==
    LET deleted == DeleteParticipant(parts, activity_name, email)
    IN  IF SelectActivity(acts, activity_name) = {}
        THEN HTTPException(404, "Activity not found", parts)
        ELSE IF deleted.rowcount = 0
        THEN HTTPException(404, "Participant not found", parts)
        ELSE [status |-> 200,
              body |-> [message |-> "Successfully unregistered from " \o activity_name],
              participants |-> deleted.rows]

(* ------------------------------- inputs -------------------------------- *)

\* The (activity_name, email) pairs requests carry under Spec: for the
\* smallest activity every new address and one seeded for the other activity,
\* that address for its own activity, and an activity name that has no row.
Requests ==
    ({"Math Olympiad"} \X (NewEmails \cup {"michael@mergington.edu"}))
    \cup ({"Chess Club"} \X {"michael@mergington.edu"})
    \cup ({"Unknown Club"} \X {NewEmail(1)})

Idle == [pc |-> "idle", op |-> "", name |-> "", email |-> "",
         max_participants |-> 0, status |-> 0, detail |-> ""]

(* --------------------- Spec: one request at a time --------------------- *)

Init ==
    /\ activities = << >>
    /\ participants = {}
    /\ started = FALSE
    /\ response = [op |-> "", name |-> "", email |-> "", status |-> 0, body |-> << >>]
    /\ conn = [r \in 1..NumRequests |-> Idle]
    /\ writer = 0

\* init_db(), at import of the module: the process starts, or starts again
\* (the connections of the process before are gone, uncommitted work with them).
InitDb ==
    LET db == init_db(activities, participants)
    IN  /\ activities' = db.activities
        /\ participants' = db.participants
        /\ started' = TRUE
        /\ response' = [op |-> "init_db", name |-> "", email |-> "",
                        status |-> 0, body |-> << >>]
        /\ conn' = [r \in 1..NumRequests |-> Idle]
        /\ writer' = 0

\* GET /activities
GetActivities ==
    /\ started
    /\ LET r == get_activities(activities, participants)
       IN  response' = [op |-> "get_activities", name |-> "", email |-> "",
                        status |-> r.status, body |-> r.body]
    /\ UNCHANGED <<activities, participants, started, conn, writer>>

\* POST /activities/{activity_name}/signup?email=
Signup ==
    /\ started
    /\ \E rq \in Requests :
         LET r == signup_for_activity(activities, participants, rq[1], rq[2])
         IN  /\ participants' = r.participants
             /\ response' = [op |-> "signup", name |-> rq[1], email |-> rq[2],
                             status |-> r.status, body |-> r.body]
    /\ UNCHANGED <<activities, started, conn, writer>>

\* DELETE /activities/{activity_name}/unregister?email=
Unregister ==
    /\ started
    /\ \E rq \in Requests :
         LET r == unregister_from_activity(activities, participants, rq[1], rq[2])
         IN  /\ participants' = r.participants
             /\ response' = [op |-> "unregister", name |-> rq[1], email |-> rq[2],
                             status |-> r.status, body |-> r.body]
    /\ UNCHANGED <<activities, started, conn, writer>>

Next == InitDb \/ GetActivities \/ Signup \/ Unregister

Spec == Init /\ [][Next]_vars

(* ------------- SpecConc: requests on their own connections ------------- *)

\* Places the seed data leaves free in the smallest activity.
FreePlaces ==
    INITIAL_ACTIVITIES["Math Olympiad"].max_participants
        - Cardinality(INITIAL_ACTIVITIES["Math Olympiad"].participants)

\* The participants table after init_db and k signups served one after
\* another, of NewEmail(1) .. NewEmail(k) for the smallest activity.
SignedUp(k) == SeedParticipants \cup {<<"Math Olympiad", NewEmail(i)>> : i \in 1..k}

\* The (activity_name, email) pairs requests carry under SpecConc.
ConcRequests ==
    ({"Math Olympiad"} \X {"charlotte@mergington.edu",
                           NewEmail(FreePlaces), NewEmail(FreePlaces + 1)})
    \cup ({"Unknown Club"} \X {NewEmail(FreePlaces)})

\* activities.db is a file: the process starts on what earlier runs left in
\* it, here nothing or the seed data with 0 .. FreePlaces earlier signups.
InitConc ==
    /\ \/ activities = << >> /\ participants = {}
       \/ activities = SeedActivities /\ \E k \in 0..FreePlaces : participants = SignedUp(k)
    /\ started = FALSE
    /\ response = [op |-> "", name |-> "", email |-> "", status |-> 0, body |-> << >>]
    /\ conn = [r \in 1..NumRequests |-> Idle]
    /\ writer = 0

\* The handler of request r ends: its response, and conn.close() in get_db.
Done(r, status_code, detail) ==
    [conn[r] EXCEPT !.pc = "done", !.status = status_code, !.detail = detail]

\* A request arrives and get_db() opens its connection.
Start(r) ==
    /\ started
    /\ conn[r].pc \in {"idle", "done"}
    /\ \E op \in {"signup", "unregister"}, rq \in ConcRequests :
         conn' = [conn EXCEPT ![r] = [Idle EXCEPT !.pc = "lookup", !.op = op,
                                                  !.name = rq[1], !.email = rq[2]]]
    /\ UNCHANGED <<activities, participants, started, response, writer>>

\* Both handlers: the SELECT on activities and the 404 that follows it.
Lookup(r) ==
    /\ conn[r].pc = "lookup"
    /\ LET activity == SelectActivity(activities, conn[r].name)
       IN  conn' = [conn EXCEPT ![r] =
                IF activity = {}
                THEN Done(r, 404, "Activity not found")
                ELSE IF conn[r].op = "signup"
                THEN [conn[r] EXCEPT !.pc = "count",
                        !.max_participants = (CHOOSE row \in activity : TRUE).max_participants]
                ELSE [conn[r] EXCEPT !.pc = "delete"]]
    /\ UNCHANGED <<activities, participants, started, response, writer>>

\* signup_for_activity: the SELECT COUNT(*) and the capacity check.
Count(r) ==
    /\ conn[r].pc = "count"
    /\ conn' = [conn EXCEPT ![r] =
            IF IsFull(CountParticipants(participants, conn[r].name), conn[r].max_participants)
            THEN Done(r, 400, "Activity is full")
            ELSE [conn[r] EXCEPT !.pc = "dup"]]
    /\ UNCHANGED <<activities, participants, started, response, writer>>

\* signup_for_activity: the SELECT 1 and the duplicate check.
Dup(r) ==
    /\ conn[r].pc = "dup"
    /\ conn' = [conn EXCEPT ![r] =
            IF SelectParticipant(participants, conn[r].name, conn[r].email)
            THEN Done(r, 400, "Already registered for this activity")
            ELSE [conn[r] EXCEPT !.pc = "insert"]]
    /\ UNCHANGED <<activities, participants, started, response, writer>>

\* signup_for_activity: the INSERT.  sqlite3 opens a transaction before it and
\* the statement takes the write lock; a primary-key clash raises
\* sqlite3.IntegrityError, which the handler does not catch.
Insert(r) ==
    /\ conn[r].pc = "insert"
    /\ writer = 0
    /\ LET inserted == InsertParticipant(participants, conn[r].name, conn[r].email)
       IN  IF inserted.error # ""
           THEN /\ conn' = [conn EXCEPT ![r] = Done(r, 500, inserted.error)]
                /\ writer' = 0
           ELSE /\ conn' = [conn EXCEPT ![r].pc = "commit"]
                /\ writer' = r
    /\ UNCHANGED <<activities, participants, started, response>>

\* unregister_from_activity: the DELETE and the rowcount check.
Delete(r) ==
    /\ conn[r].pc = "delete"
    /\ writer = 0
    /\ LET deleted == DeleteParticipant(participants, conn[r].name, conn[r].email)
       IN  IF deleted.rowcount = 0
           THEN /\ conn' = [conn EXCEPT ![r] = Done(r, 404, "Participant not found")]
                /\ writer' = 0
           ELSE /\ conn' = [conn EXCEPT ![r].pc = "commit"]
                /\ writer' = r
    /\ UNCHANGED <<activities, participants, started, response>>

\* The INSERT or DELETE of request r finds the write lock held by another
\* connection for longer than the connection's timeout (sqlite3.connect's
\* default, 5 s): sqlite3.OperationalError "database is locked", not caught.
Busy(r) ==
    /\ conn[r].pc \in {"insert", "delete"}
    /\ writer \notin {0, r}
    /\ conn' = [conn EXCEPT ![r] = Done(r, 500, "OperationalError")]
    /\ UNCHANGED <<activities, participants, started, response, writer>>

\* conn.commit(): the row written by the INSERT or DELETE becomes visible to
\* the other connections, and the success message is returned.
Commit(r) ==
    /\ conn[r].pc = "commit"
    /\ writer = r
    /\ IF conn[r].op = "signup"
       THEN /\ participants' = InsertParticipant(participants, conn[r].name, conn[r].email).rows
            /\ conn' = [conn EXCEPT ![r] = Done(r, 200, "Successfully signed up for " \o conn[r].name)]
       ELSE /\ participants' = DeleteParticipant(participants, conn[r].name, conn[r].email).rows
            /\ conn' = [conn EXCEPT ![r] = Done(r, 200, "Successfully unregistered from " \o conn[r].name)]
    /\ writer' = 0
    /\ UNCHANGED <<activities, started, response>>

NextConc ==
    \/ InitDb
    \/ \E r \in 1..NumRequests :
         Start(r) \/ Lookup(r) \/ Count(r) \/ Dup(r) \/ Insert(r)
           \/ Delete(r) \/ Busy(r) \/ Commit(r)

SpecConc == InitConc /\ [][NextConc]_vars

(* ------------------------------- claims -------------------------------- *)

\* The response is the error (status_code, detail).
IsError(resp, status_code, detail) ==
    resp.status = status_code /\ resp.body.detail = detail

\* The e-mails stored for activity a in a participants table.
Stored(parts, a) == {p[2] : p \in {q \in parts : q[1] = a}}

\* C1: with requests served one after another, every activity has at most
\* max_participants participant rows, in every reachable state.
C1_CapacityRespected ==
    \A a \in DOMAIN activities :
        Cardinality({p \in participants : p[1] = a}) <= activities[a].max_participants

\* C1, witness: an activity has been filled to its max_participants.
C1_ActivityFilled ==
    /\ started
    /\ \E a \in DOMAIN activities :
         Cardinality({p \in participants : p[1] = a}) = activities[a].max_participants

\* C3 as stated: a signup that follows a successful signup of the same
\* (activity, email) at once yields "Already registered for this activity"
\* and leaves the participants table unchanged.
C3_SecondSignupIsConflict ==
    [][(/\ response.op = "signup" /\ response.status = 200
        /\ response'.op = "signup"
        /\ response'.name = response.name /\ response'.email = response.email)
       => (/\ IsError(response', 400, "Already registered for this activity")
           /\ participants' = participants)]_vars

\* C3 as amended: a signup for a pair that is in the participants table
\* leaves the table unchanged and yields a 400: "Already registered for this
\* activity" while the activity has a free place, "Activity is full" when it
\* has none.
C3_SecondSignupIsRejected ==
    [][(/\ response'.op = "signup"
        /\ <<response'.name, response'.email>> \in participants
        /\ response'.name \in DOMAIN activities)
       => (/\ participants' = participants
           /\ IF Cardinality({p \in participants : p[1] = response'.name})
                   < activities[response'.name].max_participants
              THEN IsError(response', 400, "Already registered for this activity")
              ELSE IsError(response', 400, "Activity is full"))]_vars

\* C3, witness: a signup of a registered pair was answered "Already registered".
C3_ConflictAnswered ==
    /\ response.op = "signup"
    /\ IsError(response, 400, "Already registered for this activity")
    /\ <<response.name, response.email>> \in participants

\* C4: the outcome of a signup is decided by the tables at the call, in the
\* order: 404 "Activity not found", 400 "Activity is full", 400 "Already
\* registered for this activity", success; success inserts exactly the row
\* (activity_name, email) and every error leaves the table as it was.
C4_SignupOutcome ==
    [][response'.op = "signup" =>
        LET n == response'.name
            e == response'.email
        IN  IF n \notin DOMAIN activities
            THEN IsError(response', 404, "Activity not found")
                 /\ participants' = participants
            ELSE IF Cardinality({p \in participants : p[1] = n})
                      >= activities[n].max_participants
            THEN IsError(response', 400, "Activity is full")
                 /\ participants' = participants
            ELSE IF <<n, e>> \in participants
            THEN IsError(response', 400, "Already registered for this activity")
                 /\ participants' = participants
            ELSE /\ response'.status = 200
                 /\ response'.body = [message |-> "Successfully signed up for " \o n]
                 /\ participants' = participants \cup {<<n, e>>}]_vars

\* C4, witness: an activity filled to max_participants answered one more
\* signup, of an address not registered for it, with "Activity is full".
C4_FullAnswered ==
    /\ response.op = "signup"
    /\ IsError(response, 400, "Activity is full")
    /\ <<response.name, response.email>> \notin participants
    /\ Cardinality({p \in participants : p[1] = response.name})
         = activities[response.name].max_participants

\* C5: an unregister yields 404 "Activity not found" for a name without a
\* row, 404 "Participant not found" for a pair without a row, and otherwise
\* succeeds and deletes exactly that row: get_activities then no longer lists
\* the e-mail under the activity and lists every other activity as before.
C5_UnregisterOutcome ==
    [][response'.op = "unregister" =>
        LET n == response'.name
            e == response'.email
            before == get_activities(activities, participants)
            after == get_activities(activities', participants')
        IN  IF n \notin DOMAIN activities
            THEN IsError(response', 404, "Activity not found")
                 /\ participants' = participants
            ELSE IF <<n, e>> \notin participants
            THEN IsError(response', 404, "Participant not found")
                 /\ participants' = participants
            ELSE /\ response'.status = 200
                 /\ response'.body = [message |-> "Successfully unregistered from " \o n]
                 /\ participants' = participants \ {<<n, e>>}
                 /\ after.status = 200
                 /\ e \notin after.body[n].participants
                 /\ after.body[n].participants = before.body[n].participants \ {e}
                 /\ \A a \in DOMAIN activities \ {n} :
                      after.body[a].participants = before.body[a].participants]_vars

\* C5, witness: an address registered for two activities was unregistered
\* from one of them.
C5_UnregisteredFromOne ==
    /\ response.op = "unregister"
    /\ response.status = 200
    /\ \E a \in DOMAIN activities \ {response.name} : <<a, response.email>> \in participants

\* C6: init_db on the empty store creates exactly the seed activities and
\* their seed participants; every later init_db leaves both tables unchanged.
C6_InitDbIdempotent ==
    [][response'.op = "init_db" =>
        IF started
        THEN activities' = activities /\ participants' = participants
        ELSE /\ activities = << >> /\ participants = {}
             /\ activities' = SeedActivities
             /\ participants' = SeedParticipants]_vars

\* C6, witness: init_db ran again after a seed participant was unregistered
\* and another address signed up.
C6_InitDbAfterChanges ==
    /\ response.op = "init_db"
    /\ activities = SeedActivities
    /\ SeedParticipants \ participants # {}
    /\ participants \ SeedParticipants # {}

\* C7: a signup or unregister that ends in a 404 or a 400 leaves both tables
\* as they were before the request.
C7_ErrorsChangeNothing ==
    [][(response'.op \in {"signup", "unregister"} /\ response'.status \in {400, 404})
       => (participants' = participants /\ activities' = activities)]_vars

\* C7, witness: an unregister of a pair without a row was refused after the
\* tables had moved away from the seed data.
C7_RefusedAfterChanges ==
    /\ response.op = "unregister"
    /\ IsError(response, 404, "Participant not found")
    /\ participants # SeedParticipants

\* C8: after a successful signup get_activities lists the e-mail under the
\* activity; get_activities lists for every activity exactly the e-mails
\* stored for it; the signup changes no other activity's participants and no
\* activity's description, schedule or max_participants.
C8_SignupListed ==
    [][/\ (response'.op = "signup" /\ response'.status = 200) =>
            LET before == get_activities(activities, participants)
                after == get_activities(activities', participants')
            IN  /\ before.status = 200 /\ after.status = 200
                /\ DOMAIN after.body = DOMAIN before.body
                /\ response'.email \in after.body[response'.name].participants
                /\ \A a \in DOMAIN after.body :
                     /\ after.body[a].participants = Stored(participants', a)
                     /\ a # response'.name =>
                          after.body[a].participants = before.body[a].participants
                     /\ after.body[a].description = before.body[a].description
                     /\ after.body[a].schedule = before.body[a].schedule
                     /\ after.body[a].max_participants = before.body[a].max_participants
       /\ response'.op = "get_activities" =>
            /\ response'.status = 200
            /\ DOMAIN response'.body = DOMAIN activities
            /\ \A a \in DOMAIN activities :
                 response'.body[a].participants = Stored(participants, a)
            /\ (response.op = "signup" /\ response.status = 200) =>
                 response.email \in response'.body[response.name].participants]_vars

\* C8, witness: get_activities listed an address that a signup added.
C8_NewAddressListed ==
    /\ response.op = "get_activities"
    /\ response.status = 200
    /\ \E a \in DOMAIN activities :
         response.body[a].participants \ INITIAL_ACTIVITIES[a].participants # {}

\* C9: once init_db has run, every participants row names an activity that
\* has a row, and the activities table is the seeded one.
C9_ActivitiesFixed ==
    started =>
        /\ activities = SeedActivities
        /\ \A p \in participants : p[1] \in DOMAIN activities

\* C9, witness: a signup for a name without an activity row was answered 404.
C9_UnknownRefused ==
    /\ response.op = "signup"
    /\ response.name \notin DOMAIN activities
    /\ IsError(response, 404, "Activity not found")

\* C2: with signups for one activity running at once on their own
\* connections, the activity never has more than max_participants
\* participant rows.
C2_CapacityRespectedConcurrently ==
    started =>
        \A a \in DOMAIN activities :
            CountParticipants(participants, a) <= activities[a].max_participants

\* C10: a signup that races another signup of the same (activity_name,
\* email) ends with "Already registered for this activity", never with the
\* storage error the primary key raises.
C10_DuplicateIsConflict ==
    \A r \in 1..NumRequests :
        (conn[r].pc = "done" /\ conn[r].op = "signup")
            => conn[r].detail # "IntegrityError"

====
